---- MODULE Spec2Model ----
(***************************************************************************)
(* Button-controlled recording of the Omi Python SDK.                       *)
(*                                                                         *)
(*   omi/button.py                 ButtonHandler, parse_button_state       *)
(*   omi/bluetooth.py              listen_to_omi_with_button               *)
(*   examples/button_recording.py  RecordingSession                        *)
(*   omi/feedback.py               AudioFeedback                           *)
(*                                                                         *)
(* Time is measured in units of 100 ms.  The handler stores time.time()    *)
(* stamps and only ever reads differences between a stamp and the current  *)
(* time, so the model stores, for every stamp, the time elapsed since it   *)
(* was taken (current_time - stamp).  An elapsed time stops growing once   *)
(* it has passed the largest threshold the code compares it with.          *)
(***************************************************************************)
EXTENDS Integers, Sequences, FiniteSets, Bags, TLC

(* ------------------------------ bounds --------------------------------- *)
\* longest notification payload, in bytes
MaxLen == 5
\* value at which _toggle_count stops being driven further
MaxToggles == 2
\* length of one clock step, in units of 100 ms
TickLen == 15
\* pause_audio_for_button tasks alive at the same time
MaxTasks == 2
\* frames held by audio_queue
MaxQueue == 2
\* speak() calls that enqueue a text
MaxSpeak == 2

\* byte values the device sends in the model
ByteVals == {0, 3, 5}

(* -------------------------- program constants -------------------------- *)
\* class ButtonState(IntEnum)
IDLE == 0
LONG_PRESS_START == 3
LONG_PRESS_RELEASE == 5
ButtonState == {IDLE, LONG_PRESS_START, LONG_PRESS_RELEASE}

\* class RecordingState(IntEnum), by name
RecordingState == {"IDLE", "RECORDING"}

\* time_diff < 0.1
DuplicateWindow == 1
\* time_since_last_start > 3.0
FallbackThreshold == 30
\* asyncio.sleep(1.5)
PauseWindow == 15
\* len(data) < 4
HeaderLen == 4

\* Python's None, and a present value
None == <<>>
Some(x) == <<x>>
Val(o) == o[1]

\* the payloads of the model: up to MaxLen bytes, at most two of them not 0;
\* and the ones the device is made to send: any two leading bytes, zeros after
Payloads ==
  {d \in UNION {[1..n -> ByteVals] : n \in 0..MaxLen} :
     Cardinality({i \in 1..Len(d) : d[i] # 0}) <= 2}
Notifications == {d \in Payloads : \A i \in 3..Len(d) : d[i] = 0}

VARIABLES
  \* ButtonHandler
  recording_state, toggle_count, fallback_enabled,
  last_button_state, since_last_button, since_last_start, since_last_release,
  haptic_callback, enhanced_haptic_callback,
  \* RecordingSession
  is_recording, audio_queue,
  \* listen_to_omi_with_button: where the coroutine is, what the transport has
  \* registered, the pause flag and the pause_audio_for_button tasks
  listen_pc, audio_subscribed, button_subscribed, audio_paused, tasks,
  \* AudioFeedback: its fields (feedback_enabled is self.enabled), where its
  \* worker thread and the thread that constructs and stops it are, the texts
  \* put on _queue and the texts handed to engine.say
  feedback_enabled, running, queue, thread, caller, enqueued, said,
  \* for each "TTS error" the worker has printed, how many texts had been put
  \* on _queue by then
  tts_errors,
  \* what the last call was, what it was given, did and returned
  op, dataLen, ret, log

handlerVars == <<recording_state, toggle_count, fallback_enabled,
                 last_button_state, since_last_button, since_last_start,
                 since_last_release, haptic_callback, enhanced_haptic_callback>>
sessionVars == <<is_recording, audio_queue>>
bleVars == <<listen_pc, audio_subscribed, button_subscribed, audio_paused,
             tasks>>
feedbackVars == <<feedback_enabled, running, queue, thread, caller, enqueued,
                  said, tts_errors>>
callVars == <<op, dataLen, ret, log>>
vars == <<handlerVars, sessionVars, bleVars, feedbackVars, callVars>>

(* ------------------------------ helpers -------------------------------- *)
\* one side effect of a call: a callback invoked or a field written
Ev(what, arg) == [what |-> what, arg |-> arg]

StateName(bs) ==
  IF bs = LONG_PRESS_START THEN "LONG_PRESS_START"
  ELSE IF bs = LONG_PRESS_RELEASE THEN "LONG_PRESS_RELEASE"
  ELSE "IDLE"

\* the four bytes read most significant first
UnpackBE(data) ==
  data[4] + 256 * data[3] + 65536 * data[2] + 16777216 * data[1]

\* struct.unpack('<I', data[:4])[0]
UnpackLE(data) ==
  data[1] + 256 * data[2] + 65536 * data[3] + 16777216 * data[4]

\* len(data) < 4
TooShort(data) == Len(data) < HeaderLen

\* current_time - stamp once passed more units have gone by; a difference
\* that has reached cap is past every threshold it is compared with and is kept
OlderBy(since, cap, passed) ==
  IF since = None THEN None
  ELSE IF Val(since) >= cap THEN since
  ELSE Some(Val(since) + passed)

Older(since, cap) == OlderBy(since, cap, TickLen)

(* ----------------------------- ButtonHandler --------------------------- *)
\* the state taken from the first byte alone, whatever the length
ParseFirstByte(data) ==
  IF Len(data) = 0 THEN None
  ELSE IF data[1] \in ButtonState THEN Some(data[1]) ELSE None

\* process_button_data, lines 95-109: the typed state of a payload, or None
ParseState(data) ==
  IF TooShort(data) THEN None
  ELSE LET state_value == UnpackLE(SubSeq(data, 1, HeaderLen))
       IN  IF state_value \in ButtonState THEN Some(state_value) ELSE None

\* a utility that unpacks the first four bytes without reversing them
ParseButtonStateNoReversal(data) ==
  IF Len(data) < 4 THEN None
  ELSE LET state_bytes == SubSeq(data, 1, 4)
           state_value == state_bytes[4] + 256 * state_bytes[3]
                          + 65536 * state_bytes[2] + 16777216 * state_bytes[1]
       IN  IF state_value \in ButtonState THEN Some(state_value) ELSE None

\* parse_button_state(data): the first four bytes reversed, unpacked with
\* '>I' (most significant byte first) and looked up in ButtonState
ParseButtonState(data) ==
  IF Len(data) < 4 THEN None
  ELSE LET state_bytes == [i \in 1..4 |-> SubSeq(data, 1, 4)[5 - i]]
           state_value == state_bytes[4] + 256 * state_bytes[3]
                          + 65536 * state_bytes[2] + 16777216 * state_bytes[1]
       IN  IF state_value \in ButtonState THEN Some(state_value) ELSE None

\* the same state as the last accepted notification, however long ago
IsRepeatedState(button_state) ==
  /\ last_button_state # None
  /\ Val(last_button_state) = button_state

\* a filter that also drops the same state exactly 100 ms later
IsRapidDuplicateInclusive(button_state) ==
  /\ last_button_state # None
  /\ since_last_button # None
  /\ Val(last_button_state) = button_state
  /\ Val(since_last_button) <= DuplicateWindow

\* lines 116-120: same state as the last accepted notification, within 100 ms
IsRapidDuplicate(button_state) ==
  /\ last_button_state # None
  /\ since_last_button # None
  /\ Val(last_button_state) = button_state
  /\ Val(since_last_button) < DuplicateWindow

\* a fallback that takes every RELEASE for a missed START
FallbackOnEveryRelease(start_since, release_since) == TRUE

\* _should_trigger_fallback_toggle, on the stamps as the time elapsed since
\* them: _last_release_time - _last_start_time = start_since - release_since
ShouldTriggerFallbackToggle(start_since, release_since) ==
  IF start_since = None THEN TRUE
  ELSE IF /\ release_since # None
          /\ start_since # None
          /\ Val(start_since) - Val(release_since) > FallbackThreshold
       THEN TRUE
       ELSE FALSE

\* a toggle that dispatches the enhanced pattern and the basic level as well
ToggleHapticBoth(pattern) ==
  (IF enhanced_haptic_callback THEN <<Ev("enhanced_haptic", pattern)>> ELSE <<>>)
  \o (IF haptic_callback THEN <<Ev("haptic", "1")>> ELSE <<>>)

\* the haptic call of _toggle_recording: enhanced pattern, else basic level 1
ToggleHaptic(pattern) ==
  IF enhanced_haptic_callback THEN <<Ev("enhanced_haptic", pattern)>>
  ELSE IF haptic_callback THEN <<Ev("haptic", "1")>>
  ELSE <<>>

\* a toggle that calls the external callback before it dispatches the haptic
ToggleRecordingCallbackFirst(rec, count) ==
  IF rec = "IDLE"
  THEN [recording_state |-> "RECORDING",
        toggle_count    |-> count + 1,
        is_recording    |-> TRUE,
        log |-> <<Ev("recording_state", "RECORDING"),
                  Ev("on_recording_start", "")>> \o ToggleHaptic("start")]
  ELSE [recording_state |-> "IDLE",
        toggle_count    |-> count,
        is_recording    |-> FALSE,
        log |-> <<Ev("recording_state", "IDLE"),
                  Ev("on_recording_stop", "")>> \o ToggleHaptic("stop")]

\* a toggle whose haptic dispatch raises into it: what follows is not reached
ToggleRecordingHapticAborts(rec, count) ==
  IF rec = "IDLE"
  THEN [recording_state |-> "RECORDING",
        toggle_count    |-> count + 1,
        is_recording    |-> is_recording,
        log |-> <<Ev("recording_state", "RECORDING")>> \o ToggleHaptic("start")
                \o (IF ToggleHaptic("start") = <<>>
                    THEN <<Ev("on_recording_start", "")>> ELSE <<>>)]
  ELSE [recording_state |-> "IDLE",
        toggle_count    |-> count,
        is_recording    |-> is_recording,
        log |-> <<Ev("recording_state", "IDLE")>> \o ToggleHaptic("stop")
                \o (IF ToggleHaptic("stop") = <<>>
                    THEN <<Ev("on_recording_stop", "")>> ELSE <<>>)]

\* _toggle_recording with the session's on_recording_start / on_recording_stop
ToggleRecording(rec, count) ==
  IF rec = "IDLE"
  THEN [recording_state |-> "RECORDING",
        toggle_count    |-> count + 1,
        is_recording    |-> TRUE,
        log |-> <<Ev("recording_state", "RECORDING")>> \o ToggleHaptic("start")
                \o <<Ev("on_recording_start", "")>>]
  ELSE [recording_state |-> "IDLE",
        toggle_count    |-> count,
        is_recording    |-> FALSE,
        log |-> <<Ev("recording_state", "IDLE")>> \o ToggleHaptic("stop")
                \o <<Ev("on_recording_stop", "")>>]

\* the additional haptic of the fallback branch, lines 148-150
FallbackHaptic ==
  IF haptic_callback THEN <<Ev("haptic", "2")>> ELSE <<>>

\* an observer guarded by the truth value of the state: IDLE is 0
ObserverCallIfTruthy(button_state) ==
  IF button_state = IDLE THEN <<>>
  ELSE <<Ev("on_button_event", StateName(button_state))>>

\* lines 128-129 with the session's on_button_event
ObserverCall(button_state) ==
  <<Ev("on_button_event", StateName(button_state))>>

\* a return that leaves the handler as it is
Keep(retv) ==
  [ret |-> retv,
   recording_state |-> recording_state, toggle_count |-> toggle_count,
   last_button_state |-> last_button_state,
   since_last_button |-> since_last_button,
   since_last_start |-> since_last_start,
   since_last_release |-> since_last_release,
   is_recording |-> is_recording, log |-> <<>>]

\* an accepted notification handled without regard to _fallback_enabled
AcceptFallbackAlways(button_state) ==
  LET seen == [Keep(Some(button_state)) EXCEPT
                 !.last_button_state = Some(button_state),
                 !.since_last_button = Some(0),
                 !.log = ObserverCall(button_state)]
      t == ToggleRecording(recording_state, toggle_count)
  IN
  IF button_state = LONG_PRESS_START THEN
    [seen EXCEPT !.since_last_start = Some(0),
                 !.recording_state = t.recording_state,
                 !.toggle_count = t.toggle_count,
                 !.is_recording = t.is_recording,
                 !.log = seen.log \o t.log]
  ELSE IF button_state = LONG_PRESS_RELEASE THEN
    IF ShouldTriggerFallbackToggle(since_last_start, Some(0))
    THEN [seen EXCEPT !.since_last_release = Some(0),
                      !.recording_state = t.recording_state,
                      !.toggle_count = t.toggle_count,
                      !.is_recording = t.is_recording,
                      !.log = seen.log \o FallbackHaptic \o t.log]
    ELSE [seen EXCEPT !.since_last_release = Some(0)]
  ELSE seen

\* lines 124-155 for an accepted notification
Accept(button_state) ==
  LET seen == [Keep(Some(button_state)) EXCEPT
                 !.last_button_state = Some(button_state),
                 !.since_last_button = Some(0),
                 !.log = ObserverCall(button_state)]
  IN
  IF button_state = LONG_PRESS_START THEN
    LET t == ToggleRecording(recording_state, toggle_count)
    IN  [seen EXCEPT !.since_last_start = Some(0),
                     !.recording_state = t.recording_state,
                     !.toggle_count = t.toggle_count,
                     !.is_recording = t.is_recording,
                     !.log = seen.log \o t.log]
  ELSE IF button_state = LONG_PRESS_RELEASE THEN
    IF fallback_enabled /\ ShouldTriggerFallbackToggle(since_last_start, Some(0))
    THEN LET t == ToggleRecording(recording_state, toggle_count)
         IN  [seen EXCEPT !.since_last_release = Some(0),
                          !.recording_state = t.recording_state,
                          !.toggle_count = t.toggle_count,
                          !.is_recording = t.is_recording,
                          !.log = seen.log \o FallbackHaptic \o t.log]
    ELSE [seen EXCEPT !.since_last_release = Some(0)]
  ELSE seen

\* process_button_data(data): what it returns, does and leaves behind
Outcome(data) ==
  LET parsed == ParseState(data)
  IN  IF parsed = None THEN Keep(None)
      ELSE IF IsRapidDuplicate(Val(parsed)) THEN Keep(parsed)
      ELSE Accept(Val(parsed))

(* -------------------------------- Init --------------------------------- *)
\* RecordingSession.__init__ with its ButtonHandler.__init__: no haptic
\* callback is passed
Init ==
  /\ recording_state = "IDLE"
  /\ toggle_count = 0
  /\ fallback_enabled = TRUE
  /\ last_button_state = None
  /\ since_last_button = None
  /\ since_last_start = None
  /\ since_last_release = None
  /\ haptic_callback = FALSE
  /\ enhanced_haptic_callback = FALSE
  /\ is_recording = FALSE
  /\ audio_queue = <<>>
  /\ listen_pc = "start_audio"
  /\ audio_subscribed = FALSE
  /\ button_subscribed = FALSE
  /\ audio_paused = FALSE
  /\ tasks = EmptyBag
  /\ feedback_enabled = FALSE
  /\ running = FALSE
  /\ queue = <<>>
  /\ thread = "none"
  /\ caller = "unbuilt"
  /\ enqueued = <<>>
  /\ said = <<>>
  /\ tts_errors = <<>>
  /\ op = "init"
  /\ dataLen = 0
  /\ ret = None
  /\ log = <<>>

(* ------------------------------- actions ------------------------------- *)
\* button_handler.process_button_data(data)
ProcessCall(data) ==
  \E o \in {Outcome(data)} :
      /\ o.toggle_count <= MaxToggles
      /\ recording_state' = o.recording_state
      /\ toggle_count' = o.toggle_count
      /\ last_button_state' = o.last_button_state
      /\ since_last_button' = o.since_last_button
      /\ since_last_start' = o.since_last_start
      /\ since_last_release' = o.since_last_release
      /\ is_recording' = o.is_recording
      /\ op' = "process_button_data"
      /\ dataLen' = Len(data)
      /\ ret' = o.ret
      /\ log' = o.log
      /\ UNCHANGED <<fallback_enabled, haptic_callback,
                     enhanced_haptic_callback, audio_queue>>

ProcessButtonData(data) ==
  /\ ProcessCall(data)
  /\ UNCHANGED <<bleVars, feedbackVars>>

\* the decoder's answer for one packet: PCM bytes or nothing
DecodeResults == {"pcm", "empty"}

\* a frame handler without the is_recording gate
AudioOutcomeUngated(decoded_pcm) ==
  IF decoded_pcm = "pcm"
  THEN [audio_queue |-> Append(audio_queue, decoded_pcm),
        log |-> <<Ev("decode_packet", decoded_pcm), Ev("put_nowait", "")>>]
  ELSE [audio_queue |-> audio_queue,
        log |-> <<Ev("decode_packet", decoded_pcm)>>]

\* RecordingSession.handle_audio_data(sender, data)
AudioOutcome(decoded_pcm) ==
  IF is_recording
  THEN IF decoded_pcm = "pcm"
       THEN [audio_queue |-> Append(audio_queue, decoded_pcm),
             log |-> <<Ev("decode_packet", decoded_pcm), Ev("put_nowait", "")>>]
       ELSE [audio_queue |-> audio_queue,
             log |-> <<Ev("decode_packet", decoded_pcm)>>]
  ELSE [audio_queue |-> audio_queue, log |-> <<>>]

HandleAudioData(decoded_pcm) ==
  \E o \in {AudioOutcome(decoded_pcm)} :
      /\ Len(o.audio_queue) <= MaxQueue
      /\ audio_queue' = o.audio_queue
      /\ op' = "handle_audio_data"
      /\ dataLen' = 0
      /\ ret' = None
      /\ log' = o.log
      /\ UNCHANGED <<handlerVars, is_recording, bleVars, feedbackVars>>

\* transcribe() takes the oldest frame from audio_queue
ConsumeAudio ==
  /\ audio_queue # <<>>
  /\ audio_queue' = Tail(audio_queue)
  /\ op' = "transcribe"
  /\ dataLen' = 0
  /\ ret' = None
  /\ log' = <<>>
  /\ UNCHANGED <<handlerVars, is_recording, bleVars, feedbackVars>>

\* set_fallback_enabled(enabled)
SetFallbackEnabled(enabled) ==
  /\ fallback_enabled' = enabled
  /\ op' = "set_fallback_enabled"
  /\ dataLen' = 0
  /\ ret' = None
  /\ log' = <<>>
  /\ UNCHANGED <<recording_state, toggle_count, last_button_state,
                 since_last_button, since_last_start, since_last_release,
                 haptic_callback, enhanced_haptic_callback, sessionVars,
                 bleVars, feedbackVars>>

\* reset()
Reset ==
  /\ recording_state' = "IDLE"
  /\ toggle_count' = 0
  /\ since_last_start' = None
  /\ since_last_release' = None
  /\ op' = "reset"
  /\ dataLen' = 0
  /\ ret' = None
  /\ log' = <<>>
  /\ UNCHANGED <<fallback_enabled, last_button_state, since_last_button,
                 haptic_callback, enhanced_haptic_callback, sessionVars,
                 bleVars, feedbackVars>>

\* listen_to_omi_with_button installs both haptic callbacks on the handler
AssignHapticCallbacks ==
  /\ ~enhanced_haptic_callback
  /\ enhanced_haptic_callback' = TRUE
  /\ haptic_callback' = TRUE
  /\ op' = "assign_haptics"
  /\ dataLen' = 0
  /\ ret' = None
  /\ log' = <<>>
  /\ UNCHANGED <<recording_state, toggle_count, fallback_enabled,
                 last_button_state, since_last_button, since_last_start,
                 since_last_release, sessionVars, bleVars, feedbackVars>>

\* a pause task after TickLen more units of its asyncio.sleep(1.5)
Slept(task) ==
  IF task.pc = "sleep" /\ task.left > 0
  THEN [task EXCEPT !.left = IF task.left > TickLen THEN task.left - TickLen ELSE 0]
  ELSE task

\* time.time() moves on by TickLen.  _last_release_time is read only by
\* _should_trigger_fallback_toggle, which line 142 calls right after line 139
\* has set it to current_time: it is kept as it was taken.
Tick ==
  /\ since_last_button' = Older(since_last_button, DuplicateWindow)
  /\ since_last_start' = Older(since_last_start, FallbackThreshold + 1)
  /\ since_last_release' = since_last_release
  /\ tasks' = BagOfAll(Slept, tasks)
  /\ op' = "tick"
  /\ dataLen' = 0
  /\ ret' = None
  /\ log' = <<>>
  /\ UNCHANGED <<recording_state, toggle_count, fallback_enabled,
                 last_button_state, haptic_callback,
                 enhanced_haptic_callback, sessionVars, listen_pc,
                 audio_subscribed, button_subscribed, audio_paused,
                 feedbackVars>>

(* ------------------------ listen_to_omi_with_button ------------------- *)
\* a transport call (start_notify, stop_notify) returns or raises
TransportResults == {"ok", "error"}

\* the pause_audio_for_button tasks are a bag: a task is where it stands in
\* the coroutine (pc) and what is left of its sleep; until it starts to run
\* it also tells whether a pause window was open when it was created
Task(pc, left) == [pc |-> pc, left |-> left, in_window |-> FALSE]
Created(in_window) == [pc |-> "created", left |-> 0, in_window |-> in_window]
Spawn(bag, task) == bag (+) SetToBag({task})
Finish(bag, task) == bag (-) SetToBag({task})
Move(bag, task, to) == Spawn(Finish(bag, task), to)
Live == BagToSet(tasks)

\* the steps of a pause cycle between its stop_notify and its resubscribe
InCycle == {"stop_notify", "sleep", "start_notify"}
CyclesInFlight ==
  BagCardinality([t \in {x \in Live : x.pc \in InCycle} |-> tasks[t]])

\* a pause window is open: a cycle has issued its unsubscribe and has not
\* finished its resubscribe, or the flag says so
PauseActive == CyclesInFlight > 0 \/ audio_paused

\* a step of the listen coroutine or of a task: nothing of the handler or the
\* session changes; events are the transport calls that returned in the step
BleCall(name, events) ==
  /\ op' = name
  /\ dataLen' = 0
  /\ ret' = None
  /\ log' = events
  /\ UNCHANGED <<sessionVars, feedbackVars>>

BleStep(name) == BleCall(name, <<>>)

\* a listener that goes on to the button characteristic although the audio
\* start_notify has raised
ListenAudioStartedUnchecked(result, button_char) ==
  /\ listen_pc = "start_audio"
  /\ audio_subscribed' = (result = "ok")
  /\ enhanced_haptic_callback' = TRUE
  /\ haptic_callback' = TRUE
  /\ listen_pc' = IF button_char THEN "start_button" ELSE "sleep"
  /\ BleStep("listen")
  /\ UNCHANGED <<recording_state, toggle_count, fallback_enabled,
                 last_button_state, since_last_button, since_last_start,
                 since_last_release, button_subscribed, audio_paused, tasks>>

\* line 106 returns: audio is subscribed; lines 110-130 install the haptic
\* callbacks and look the button characteristic up; line 164 is issued
ListenAudioStarted(result, button_char) ==
  /\ listen_pc = "start_audio"
  /\ IF result = "ok"
     THEN /\ audio_subscribed' = TRUE
          /\ enhanced_haptic_callback' = TRUE
          /\ haptic_callback' = TRUE
          /\ listen_pc' = IF button_char THEN "start_button" ELSE "sleep"
     ELSE /\ listen_pc' = "raised"
          /\ UNCHANGED <<audio_subscribed, enhanced_haptic_callback,
                         haptic_callback>>
  /\ BleStep("listen")
  /\ UNCHANGED <<recording_state, toggle_count, fallback_enabled,
                 last_button_state, since_last_button, since_last_start,
                 since_last_release, button_subscribed, audio_paused, tasks>>

\* line 164 returns: the button characteristic is subscribed; line 167 sleeps.
\* When it raises, the exception leaves the async with block of line 54 and
\* the client disconnects, which ends the audio subscription
ListenButtonStarted(result) ==
  /\ listen_pc = "start_button"
  /\ IF result = "ok"
     THEN /\ button_subscribed' = TRUE
          /\ listen_pc' = "sleep"
          /\ UNCHANGED audio_subscribed
     ELSE /\ listen_pc' = "raised"
          /\ audio_subscribed' = FALSE
          /\ UNCHANGED button_subscribed
  /\ BleStep("listen")
  /\ UNCHANGED <<handlerVars, audio_paused, tasks>>

\* handle_button_data(sender, data): the handler's call, then the pause task
\* for a payload whose first byte is 3
WantsPause(data) == Len(data) > 0 /\ data[1] = 3

HandleButtonCall(data) ==
  /\ button_subscribed
  /\ ProcessCall(data)
  /\ IF WantsPause(data)
     THEN /\ BagCardinality(tasks) < MaxTasks
          /\ tasks' = Spawn(tasks, Created(PauseActive))
     ELSE UNCHANGED tasks
  /\ UNCHANGED <<listen_pc, audio_subscribed, button_subscribed, audio_paused>>

HandleButtonData(data) ==
  /\ HandleButtonCall(data)
  /\ UNCHANGED feedbackVars

\* pause_audio_for_button up to its first await: the flag is read and, when it
\* is clear, stop_notify is issued
PauseBegin(task) ==
  /\ task.pc = "created"
  /\ IF ~audio_paused
     THEN tasks' = Move(tasks, task, Task("stop_notify", 0))
     ELSE tasks' = Finish(tasks, task)
  /\ BleStep("pause_begin")
  /\ UNCHANGED <<handlerVars, listen_pc, audio_subscribed, button_subscribed,
                 audio_paused>>

\* stop_notify returns (lines 141-144) or raises (lines 151-153)
PauseStopped(task, result) ==
  /\ task.pc = "stop_notify"
  /\ IF result = "ok"
     THEN /\ audio_subscribed' = FALSE
          /\ audio_paused' = TRUE
          /\ tasks' = Move(tasks, task, Task("sleep", PauseWindow))
     ELSE /\ audio_paused' = FALSE
          /\ tasks' = Finish(tasks, task)
          /\ UNCHANGED audio_subscribed
  /\ BleCall("pause_stopped", <<Ev("stop_notify", result)>>)
  /\ UNCHANGED <<handlerVars, listen_pc, button_subscribed>>

\* asyncio.sleep(1.5) is over: start_notify is issued (line 147)
PauseWake(task) ==
  /\ task.pc = "sleep"
  /\ task.left = 0
  /\ tasks' = Move(tasks, task, Task("start_notify", 0))
  /\ BleStep("pause_wake")
  /\ UNCHANGED <<handlerVars, listen_pc, audio_subscribed, button_subscribed,
                 audio_paused>>

\* a resubscribe whose except branch leaves the flag as it is
PauseResumedNoReset(task, result) ==
  /\ task.pc = "start_notify"
  /\ IF result = "ok"
     THEN audio_subscribed' = TRUE /\ audio_paused' = FALSE
     ELSE UNCHANGED <<audio_subscribed, audio_paused>>
  /\ tasks' = Finish(tasks, task)
  /\ BleCall("pause_resumed", <<Ev("start_notify", result)>>)
  /\ UNCHANGED <<handlerVars, listen_pc, button_subscribed>>

\* start_notify returns (lines 148-149) or raises (lines 151-153)
PauseResumed(task, result) ==
  /\ task.pc = "start_notify"
  /\ IF result = "ok"
     THEN audio_subscribed' = TRUE
     ELSE UNCHANGED audio_subscribed
  /\ audio_paused' = FALSE
  /\ tasks' = Finish(tasks, task)
  /\ BleCall("pause_resumed", <<Ev("start_notify", result)>>)
  /\ UNCHANGED <<handlerVars, listen_pc, button_subscribed>>

NextBle ==
  \/ \E result \in TransportResults, button_char \in BOOLEAN :
        ListenAudioStarted(result, button_char)
  \/ \E result \in TransportResults : ListenButtonStarted(result)
  \/ \E data \in Notifications : HandleButtonData(data)
  \/ \E task \in Live : PauseBegin(task)
  \/ \E task \in Live, result \in TransportResults : PauseStopped(task, result)
  \/ \E task \in Live : PauseWake(task)
  \/ \E task \in Live, result \in TransportResults : PauseResumed(task, result)
  \/ Tick

SpecBle == Init /\ [][NextBle]_vars

\* the same with a device that sends well-formed notifications only: 4 bytes
\* or more that decode to Idle, LongPressStart or LongPressRelease
WellFormed == {d \in Notifications : Len(d) >= HeaderLen /\ ParseState(d) # None}

NextBleWellFormed ==
  \/ \E result \in TransportResults, button_char \in BOOLEAN :
        ListenAudioStarted(result, button_char)
  \/ \E result \in TransportResults : ListenButtonStarted(result)
  \/ \E data \in WellFormed : HandleButtonData(data)
  \/ \E task \in Live : PauseBegin(task)
  \/ \E task \in Live, result \in TransportResults : PauseStopped(task, result)
  \/ \E task \in Live : PauseWake(task)
  \/ \E task \in Live, result \in TransportResults : PauseResumed(task, result)
  \/ Tick

SpecBleWellFormed == Init /\ [][NextBleWellFormed]_vars

(* ------------------------- haptic writes ------------------------------- *)
\* the pattern names and levels the haptic coroutines are called with
PatternTypes == {"start", "stop", "other"}
Levels == {0, 1, 2, 3, 258}

\* the bytes an enhanced pattern writes with the start and stop tiers swapped
EnhancedWritesSwapped(pattern_type, speaker_char) ==
  IF ~speaker_char THEN <<>>
  ELSE IF pattern_type = "start" THEN <<3>>
  ELSE IF pattern_type = "stop" THEN <<2>>
  ELSE <<1>>

\* play_enhanced_haptic(pattern_type): the bytes handed to write_gatt_char,
\* one write each, when the speaker characteristic is found
EnhancedWrites(pattern_type, speaker_char) ==
  IF ~speaker_char THEN <<>>
  ELSE IF pattern_type = "start" THEN <<2>>
  ELSE IF pattern_type = "stop" THEN <<3>>
  ELSE <<1>>

\* play_haptic(level): bytes([level & 0xFF])
LevelWrites(level, speaker_char) ==
  IF ~speaker_char THEN <<>> ELSE <<level % 256>>

\* the write_gatt_char calls of a coroutine, in order
WriteEvents(bytes) ==
  [i \in 1..Len(bytes) |-> Ev("write_gatt_char", ToString(bytes[i]))]

\* a haptic coroutine runs to its end: the speaker characteristic is looked
\* up and, when found, written to; a write that raises is swallowed by except
\* Exception, and the coroutine returns None either way
HapticRun(name, arg, speaker_char, bytes, result) ==
  /\ op' = name
  /\ dataLen' = 0
  /\ ret' = None
  /\ log' = <<Ev(name, arg),
              Ev("speaker_char", IF speaker_char THEN "found" ELSE "missing")>>
             \o WriteEvents(bytes)
             \o (IF bytes # <<>> /\ result = "error"
                 THEN <<Ev("except", "Exception")>> ELSE <<>>)
  /\ UNCHANGED <<handlerVars, sessionVars, bleVars, feedbackVars>>

PlayEnhancedHaptic(pattern_type, speaker_char, result) ==
  /\ enhanced_haptic_callback
  /\ HapticRun("play_enhanced_haptic", pattern_type, speaker_char,
               EnhancedWrites(pattern_type, speaker_char), result)

PlayHaptic(level, speaker_char, result) ==
  /\ haptic_callback
  /\ HapticRun("play_haptic", ToString(level), speaker_char,
               LevelWrites(level, speaker_char), result)

\* a ButtonHandler with the haptic coroutines of listen_to_omi_with_button
NextHaptic ==
  \/ \E data \in Notifications : ProcessButtonData(data)
  \/ AssignHapticCallbacks
  \/ Tick
  \/ \E pattern_type \in PatternTypes, speaker_char \in BOOLEAN,
        result \in TransportResults :
        PlayEnhancedHaptic(pattern_type, speaker_char, result)
  \/ \E level \in Levels, speaker_char \in BOOLEAN,
        result \in TransportResults :
        PlayHaptic(level, speaker_char, result)

SpecHaptic == Init /\ [][NextHaptic]_vars

(* ---------------------------- AudioFeedback ---------------------------- *)
\* the texts RecordingFeedback speaks, and the None that stop() puts on _queue
Texts == {"Recording started", "Recording stopped"}
ShutdownSignal == "None"

\* a call of AudioFeedback that touches nothing but the feedback object
FeedbackCall(name, events) ==
  /\ op' = name
  /\ dataLen' = 0
  /\ ret' = None
  /\ log' = events
  /\ UNCHANGED <<handlerVars, sessionVars, bleVars>>

\* a step of the worker thread: no call is made or returns
WorkerStep == UNCHANGED <<handlerVars, sessionVars, bleVars, callVars>>

\* AudioFeedback.__init__(enabled) with the module's TTS_AVAILABLE
AudioFeedbackInit(enabled, TTS_AVAILABLE) ==
  /\ caller = "unbuilt"
  /\ feedback_enabled' = (enabled /\ TTS_AVAILABLE)
  /\ queue' = <<>>
  /\ running' = (enabled /\ TTS_AVAILABLE)
  /\ thread' = IF enabled /\ TTS_AVAILABLE THEN "init" ELSE "none"
  /\ caller' = "idle"
  /\ FeedbackCall("AudioFeedback",
                  <<Ev("enabled", ToString(enabled)),
                    Ev("TTS_AVAILABLE", ToString(TTS_AVAILABLE))>>
                  \o (IF enabled /\ TTS_AVAILABLE
                      THEN <<Ev("thread_start", "")>> ELSE <<>>))
  /\ UNCHANGED <<enqueued, said, tts_errors>>

\* a speak that puts the text on the queue whether or not feedback is enabled
SpeakUnguarded(text) ==
  /\ caller # "unbuilt"
  /\ Len(enqueued) < MaxSpeak
  /\ queue' = Append(queue, text)
  /\ enqueued' = Append(enqueued, text)
  /\ FeedbackCall("speak", <<Ev("put", text)>>)
  /\ UNCHANGED <<feedback_enabled, running, thread, caller, said,
                 tts_errors>>

\* speak(text)
Speak(text) ==
  /\ caller # "unbuilt"
  /\ Len(enqueued) < MaxSpeak
  /\ IF feedback_enabled
     THEN /\ queue' = Append(queue, text)
          /\ enqueued' = Append(enqueued, text)
          /\ FeedbackCall("speak", <<Ev("put", text)>>)
     ELSE /\ UNCHANGED <<queue, enqueued>>
          /\ FeedbackCall("speak", <<>>)
  /\ UNCHANGED <<feedback_enabled, running, thread, caller, said,
                 tts_errors>>

\* stop(), lines 111-112: nothing to do unless _running; _running is cleared
StopBegin ==
  /\ caller = "idle"
  /\ IF running
     THEN /\ running' = FALSE
          /\ caller' = "stop_put"
          /\ UNCHANGED callVars
          /\ UNCHANGED <<handlerVars, sessionVars, bleVars>>
     ELSE /\ UNCHANGED <<running, caller>>
          /\ FeedbackCall("stop", <<>>)
  /\ UNCHANGED <<feedback_enabled, queue, thread, enqueued, said,
                 tts_errors>>

\* stop(), line 113: the shutdown signal is put on the queue
StopPut ==
  /\ caller = "stop_put"
  /\ queue' = Append(queue, ShutdownSignal)
  /\ caller' = "stop_join"
  /\ UNCHANGED callVars
  /\ UNCHANGED <<handlerVars, sessionVars, bleVars>>
  /\ UNCHANGED <<feedback_enabled, running, thread, enqueued, said,
                 tts_errors>>

\* stop(), line 115: join returns because the worker has exited
StopJoined ==
  /\ caller = "stop_join"
  /\ thread = "exited"
  /\ caller' = "idle"
  /\ FeedbackCall("stop", <<Ev("join", "exited")>>)
  /\ UNCHANGED <<feedback_enabled, running, queue, thread, enqueued, said,
                 tts_errors>>

\* stop(), line 115: join(timeout=1.0) gives up; the worker is inside a call
\* of the engine (pyttsx3.init, runAndWait), which may outlast any timeout,
\* while its own waits are 0.1 s long; stop returns None all the same
StopJoinTimeout ==
  /\ caller = "stop_join"
  /\ thread \in {"init", "say"}
  /\ caller' = "idle"
  /\ FeedbackCall("stop", <<Ev("join", "timeout")>>)
  /\ UNCHANGED <<feedback_enabled, running, queue, thread, enqueued, said,
                 tts_errors>>

\* _tts_worker, lines 62-66: the engine is set up
WorkerInit ==
  /\ thread = "init"
  /\ thread' = "check"
  /\ WorkerStep
  /\ UNCHANGED <<feedback_enabled, running, queue, caller, enqueued, said,
                 tts_errors>>

\* a worker that leaves its loop on the shutdown signal alone
WorkerCheckIgnoringFlag ==
  /\ thread = "check"
  /\ thread' = "get"
  /\ WorkerStep
  /\ UNCHANGED <<feedback_enabled, running, queue, caller, enqueued, said,
                 tts_errors>>

\* line 68: while self._running
WorkerCheck ==
  /\ thread = "check"
  /\ thread' = IF running THEN "get" ELSE "exited"
  /\ WorkerStep
  /\ UNCHANGED <<feedback_enabled, running, queue, caller, enqueued, said,
                 tts_errors>>

\* a worker that looks at the head of the queue and leaves it there
WorkerGetPeek ==
  /\ thread = "get"
  /\ IF queue = <<>> THEN thread' = "check" /\ UNCHANGED said
     ELSE IF Head(queue) = ShutdownSignal
     THEN thread' = "exited" /\ UNCHANGED said
     ELSE thread' = "say" /\ said' = Append(said, Head(queue))
  /\ WorkerStep
  /\ UNCHANGED <<feedback_enabled, running, queue, caller, enqueued,
                 tts_errors>>

\* lines 71-75: get(timeout=0.1) raises Empty, or returns the oldest entry:
\* the shutdown signal ends the loop, a text is handed to engine.say
WorkerGet ==
  /\ thread = "get"
  /\ IF queue = <<>>
     THEN /\ thread' = "check"
          /\ UNCHANGED <<queue, said>>
     ELSE /\ queue' = Tail(queue)
          /\ IF Head(queue) = ShutdownSignal
             THEN thread' = "exited" /\ UNCHANGED said
             ELSE thread' = "say" /\ said' = Append(said, Head(queue))
  /\ WorkerStep
  /\ UNCHANGED <<feedback_enabled, running, caller, enqueued, tts_errors>>

\* what engine.say and engine.runAndWait can do: return, or raise
EngineResults == {"ok", "error"}

\* a worker whose thread ends when the engine raises
WorkerSaidErrorFatal(result) ==
  /\ thread = "say"
  /\ thread' = IF result = "ok" THEN "check" ELSE "exited"
  /\ tts_errors' = IF result = "ok" THEN tts_errors
                   ELSE Append(tts_errors, Len(enqueued))
  /\ WorkerStep
  /\ UNCHANGED <<feedback_enabled, running, queue, caller, enqueued, said>>

\* lines 75-80: say and runAndWait return, or raise: the error is printed
\* and the loop goes on
WorkerSaid(result) ==
  /\ thread = "say"
  /\ thread' = "check"
  /\ tts_errors' = IF result = "ok" THEN tts_errors
                   ELSE Append(tts_errors, Len(enqueued))
  /\ WorkerStep
  /\ UNCHANGED <<feedback_enabled, running, queue, caller, enqueued, said>>

\* an AudioFeedback constructed, spoken to and stopped while its worker runs
NextFeedback ==
  \/ \E enabled \in BOOLEAN, TTS_AVAILABLE \in BOOLEAN :
        AudioFeedbackInit(enabled, TTS_AVAILABLE)
  \/ \E text \in Texts : Speak(text)
  \/ StopBegin
  \/ StopPut
  \/ StopJoined
  \/ StopJoinTimeout
  \/ WorkerInit
  \/ WorkerCheck
  \/ WorkerGet
  \/ \E result \in EngineResults : WorkerSaid(result)

SpecFeedback == Init /\ [][NextFeedback]_vars

(* ----------------------- the session, start to stop -------------------- *)
\* the async with block of line 54 has been left: the client is disconnected
Exited == listen_pc \in {"raised", "cancelled"}

\* what a transport call can do now: it raises on a disconnected client
TransportNow == IF Exited THEN {"error"} ELSE TransportResults

\* the texts the session's callbacks speak in a call: _on_recording_start and
\* _on_recording_stop go through RecordingFeedback to AudioFeedback.speak
SpokenBy(events) ==
  LET said_by(e) ==
        IF e.what = "on_recording_start" THEN <<"Recording started">>
        ELSE IF e.what = "on_recording_stop" THEN <<"Recording stopped">>
        ELSE <<>>
      F[i \in 0..Len(events)] ==
        IF i = 0 THEN <<>> ELSE F[i - 1] \o said_by(events[i])
  IN  F[Len(events)]

\* handle_button_data in a RecordingSession: the callbacks of the toggle put
\* their text on the feedback queue when feedback is enabled
SessionButtonData(data) ==
  /\ caller # "unbuilt"
  /\ HandleButtonCall(data)
  /\ IF feedback_enabled
     THEN /\ Len(enqueued) + Len(SpokenBy(log')) <= MaxSpeak
          /\ queue' = queue \o SpokenBy(log')
          /\ enqueued' = enqueued \o SpokenBy(log')
     ELSE UNCHANGED <<queue, enqueued>>
  /\ UNCHANGED <<feedback_enabled, running, thread, caller, said,
                 tts_errors>>

\* the listen coroutine is cancelled at one of its awaits (lines 106, 164,
\* 167): the async with block is left and the client disconnects, which ends
\* both subscriptions; the pause tasks are not referenced anywhere and go on
CancelListen ==
  /\ caller # "unbuilt"
  /\ listen_pc \in {"start_audio", "start_button", "sleep"}
  /\ listen_pc' = "cancelled"
  /\ audio_subscribed' = FALSE
  /\ button_subscribed' = FALSE
  /\ BleStep("cancel")
  /\ UNCHANGED <<handlerVars, audio_paused, tasks>>

\* main(): the session is built, run() listens until it is cancelled, and the
\* finally clause stops the audio feedback
NextStop ==
  \/ \E TTS_AVAILABLE \in BOOLEAN : AudioFeedbackInit(TRUE, TTS_AVAILABLE)
  \/ \E result \in TransportResults, button_char \in BOOLEAN :
        caller # "unbuilt" /\ ListenAudioStarted(result, button_char)
  \/ \E result \in TransportResults :
        caller # "unbuilt" /\ ListenButtonStarted(result)
  \/ \E data \in WellFormed : SessionButtonData(data)
  \/ \E task \in Live : PauseBegin(task)
  \/ \E task \in Live, result \in TransportNow : PauseStopped(task, result)
  \/ \E task \in Live : PauseWake(task)
  \/ \E task \in Live, result \in TransportNow : PauseResumed(task, result)
  \/ Tick
  \/ CancelListen
  \/ Exited /\ StopBegin
  \/ StopPut
  \/ StopJoined
  \/ StopJoinTimeout
  \/ WorkerInit
  \/ WorkerCheck
  \/ WorkerGet
  \/ \E result \in EngineResults : WorkerSaid(result)

SpecStop == Init /\ [][NextStop]_vars

\* the argument of a parse_button_state call, one entry for each integer
Arguments(data) == [i \in 1..Len(data) |-> Ev("data", ToString(data[i]))]

\* parse_button_state(data) is called: nothing but its return value is left
ParseButtonStateCall(data) ==
  /\ op' = "parse_button_state"
  /\ dataLen' = Len(data)
  /\ ret' = ParseButtonState(data)
  /\ log' = Arguments(data)
  /\ UNCHANGED <<handlerVars, sessionVars, bleVars, feedbackVars>>

\* the utility and a handler given the payloads of the model, in any order
NextParse ==
  \/ \E data \in Payloads : ParseButtonStateCall(data)
  \/ \E data \in Payloads : ProcessButtonData(data)

SpecParse == Init /\ [][NextParse]_vars

\* time.time() moves on by 100 ms, the width of the duplicate window
FineTick ==
  /\ since_last_button' = OlderBy(since_last_button, DuplicateWindow, 1)
  /\ since_last_start' = OlderBy(since_last_start, FallbackThreshold + 1, 1)
  /\ since_last_release' = since_last_release
  /\ op' = "tick"
  /\ dataLen' = 0
  /\ ret' = None
  /\ log' = <<>>
  /\ UNCHANGED <<recording_state, toggle_count, fallback_enabled,
                 last_button_state, haptic_callback,
                 enhanced_haptic_callback, sessionVars, bleVars,
                 feedbackVars>>

\* a ButtonHandler given well-formed notifications 100 ms or more apart, or
\* closer
NextFilter ==
  \/ \E data \in WellFormed : ProcessButtonData(data)
  \/ Reset
  \/ FineTick
  \/ Tick

SpecFilter == Init /\ [][NextFilter]_vars

\* the public operations of a ButtonHandler, in any order
Next ==
  \/ \E data \in Notifications : ProcessButtonData(data)
  \/ \E enabled \in BOOLEAN : SetFallbackEnabled(enabled)
  \/ Reset
  \/ AssignHapticCallbacks
  \/ Tick

Spec == Init /\ [][Next]_vars

\* a RecordingSession fed button and audio notifications
NextSession ==
  \/ \E data \in Notifications : ProcessButtonData(data)
  \/ \E decoded_pcm \in DecodeResults : HandleAudioData(decoded_pcm)
  \/ ConsumeAudio
  \/ Tick

SpecSession == Init /\ [][NextSession]_vars

(* ------------------------------ properties ----------------------------- *)
\* the first four bytes of a payload as an unsigned little-endian integer
LE32(d) == d[1] + 256 * (d[2] + 256 * (d[3] + 256 * d[4]))

Calls(events, what) == {i \in 1..Len(events) : events[i].what = what}

Processed == op = "process_button_data"

\* C4: whatever the handler has been through, a payload shorter than 4 bytes
\* makes process_button_data return None, invoke no callback and leave
\* recording_state and the toggle counter as they were.
C4_ShortPayloadIgnored ==
  \A d \in Payloads :
    Len(d) < 4 =>
      \E o \in {Outcome(d)} :
        /\ o.ret = None
        /\ o.log = <<>>
        /\ o.recording_state = recording_state
        /\ o.toggle_count = toggle_count
        /\ o.is_recording = is_recording

\* a short payload has just been handed to a handler that is recording
C4_Witness ==
  /\ Processed
  /\ dataLen \in 1..3
  /\ ret = None
  /\ recording_state = "RECORDING"

\* C5: a payload of 4 or more bytes whose first 4 bytes are not 0, 3 or 5 as
\* a little-endian integer makes process_button_data return None and leave
\* recording_state as it was; the bytes after the fourth never change what
\* the call returns, does or leaves behind.
C5_UnknownStateIgnored ==
  \A d \in Payloads :
    Len(d) >= 4 =>
      \E o \in {Outcome(d)} :
        /\ LE32(d) \notin {0, 3, 5} =>
             /\ o.ret = None
             /\ o.log = <<>>
             /\ o.recording_state = recording_state
             /\ o.toggle_count = toggle_count
        /\ o = Outcome(SubSeq(d, 1, 4))

\* an unrecognized payload with a trailing byte has just been handed to a
\* handler that is recording
C5_Witness ==
  /\ Processed
  /\ dataLen > 4
  /\ ret = None
  /\ recording_state = "RECORDING"

\* the last accepted notification had this state and is less than 100 ms old
Recent(button_state) ==
  /\ last_button_state = Some(button_state)
  /\ Val(since_last_button) < 1

C3_AtMostOneCycleInFlight == CyclesInFlight <= 1

\* C6: every change of recording_state by a notification, to Recording and
\* back to Idle, increments the toggle counter by exactly 1.
C6_CounterCountsEveryTransition ==
  [][(Processed' /\ recording_state' # recording_state)
       => toggle_count' = toggle_count + 1]_vars

\* C7: a frame that arrives while recording_state is Idle is neither decoded
\* nor put on audio_queue, and whenever handle_audio_data has decoded or
\* queued a frame the recording was on.
C7_AudioOnlyWhileRecording ==
  /\ \A decoded_pcm \in DecodeResults :
       recording_state = "IDLE" =>
         \E o \in {AudioOutcome(decoded_pcm)} :
           o.log = <<>> /\ o.audio_queue = audio_queue
  /\ (op = "handle_audio_data" /\ log # <<>>) => recording_state = "RECORDING"

\* a frame has arrived after a recording was stopped and was dropped, with a
\* frame of that recording still queued
C7_Witness ==
  /\ op = "handle_audio_data"
  /\ log = <<>>
  /\ recording_state = "IDLE"
  /\ toggle_count > 0
  /\ audio_queue # <<>>

\* C8: the RELEASE that ends a long press (the last accepted notification was
\* its START) leaves recording_state as the START set it, however long the
\* button was held.
C8_ReleaseAfterStartKeepsState ==
  [][(Processed' /\ ret' = Some(LONG_PRESS_RELEASE)
        /\ last_button_state = Some(LONG_PRESS_START))
       => recording_state' = recording_state]_vars

C10_ToggleOrder ==
  (Processed /\ Calls(log, "recording_state") # {}) =>
    \E m \in Calls(log, "recording_state") :
      /\ Calls(log, "recording_state") = {m}
      /\ log[m].arg = recording_state
      /\ Calls(log, "on_recording_start") \cup Calls(log, "on_recording_stop")
           = {Len(log)}
      /\ log[Len(log)].what = IF recording_state = "RECORDING"
                               THEN "on_recording_start"
                               ELSE "on_recording_stop"
      /\ m < Len(log)
      /\ IF enhanced_haptic_callback
         THEN /\ Len(log) = m + 2
              /\ log[m + 1] = Ev("enhanced_haptic",
                                 IF recording_state = "RECORDING"
                                 THEN "start" ELSE "stop")
         ELSE IF haptic_callback
         THEN Len(log) = m + 2 /\ log[m + 1] = Ev("haptic", "1")
         ELSE Len(log) = m + 1

\* a toggle to Idle has dispatched the stop pattern
C10_Witness ==
  /\ Processed
  /\ recording_state = "IDLE"
  /\ \E i \in 1..Len(log) : log[i] = Ev("enhanced_haptic", "stop")

\* the haptic callback invocations of a call, basic and enhanced
HapticCalls(events) == Calls(events, "haptic") \cup Calls(events, "enhanced_haptic")

Toggled == Calls(log, "recording_state") # {}

Written ==
  LET w == SelectSeq(log, LAMBDA e : e.what = "write_gatt_char")
  IN  [i \in 1..Len(w) |-> w[i].arg]

HapticPlayed == op \in {"play_enhanced_haptic", "play_haptic"}

C13_PauseIffDecodedStart ==
  [][Processed' =>
       ((BagCardinality(tasks') = BagCardinality(tasks) + 1)
          <=> ret' = Some(LONG_PRESS_START))]_vars

\* a transport call of a pause task has just raised
PauseFailed ==
  /\ op \in {"pause_stopped", "pause_resumed"}
  /\ log[1].arg = "error"

\* C14: a stop_notify or start_notify that raises inside a pause task ends
\* that task without reaching the listen coroutine and leaves audio_paused
\* false; audio_paused is false whenever no pause cycle is in flight; and a
\* pause task that begins while no cycle is in flight starts a cycle.
C14_FailureResetsFlag ==
  [][/\ PauseFailed' =>
          /\ ~audio_paused'
          /\ BagCardinality(tasks') = BagCardinality(tasks) - 1
          /\ listen_pc' = listen_pc
     /\ CyclesInFlight' = 0 => ~audio_paused'
     /\ (op' = "pause_begin" /\ CyclesInFlight = 0) => CyclesInFlight' = 1
    ]_vars

\* the resubscribe of the only pause task has failed: audio stays off, the
\* flag is clear
C14_Witness ==
  /\ op = "pause_resumed"
  /\ log = <<Ev("start_notify", "error")>>
  /\ tasks = EmptyBag
  /\ ~audio_subscribed
  /\ ~audio_paused

\* the session has been stopped: listening was cancelled and stop() returned
SessionStopped ==
  /\ listen_pc = "cancelled"
  /\ op = "stop"
  /\ caller = "idle"

\* C15: when the session has been stopped (listen_to_omi_with_button
\* cancelled, AudioFeedback.stop returned after at most its join timeout) the
\* speech worker thread has terminated and neither the audio nor the button
\* subscription is registered, whether or not a pause cycle was in flight.
C15_StopLeavesNothingRunning ==
  SessionStopped =>
    /\ thread \in {"none", "exited"}
    /\ ~audio_subscribed
    /\ ~button_subscribed

\* C16: once listening has been cancelled no pause task takes another step
\* of its cycle: no stop_notify or start_notify on the audio characteristic
\* is issued or returns, and the audio subscription stays removed.
C16_NoPauseStepAfterStop ==
  [][listen_pc = "cancelled" =>
       /\ op' \notin {"pause_stopped", "pause_wake", "pause_resumed"}
       /\ ~(op' = "pause_begin" /\ ~audio_paused)
       /\ ~audio_subscribed']_vars

\* the texts of a queue, the shutdown signal left out
TextsOf(q) == SelectSeq(q, LAMBDA x : x # ShutdownSignal)

\* the entries of the queue that stop() finds ahead of its shutdown signal:
\* those before the signal once it is put, the whole queue just before that
AheadOfSignal ==
  IF \E i \in 1..Len(queue) : queue[i] = ShutdownSignal
  THEN LET first == CHOOSE i \in 1..Len(queue) :
                      /\ queue[i] = ShutdownSignal
                      /\ \A j \in 1..(i - 1) : queue[j] # ShutdownSignal
       IN  SubSeq(queue, 1, first - 1)
  ELSE IF caller = "stop_put" THEN queue ELSE <<>>

\* C17 as claimed: when the worker has exited, every text that was enqueued
\* before the shutdown signal has been synthesized, in order: none of them
\* is left on the queue.
C17_QueuedTextsDrained ==
  thread = "exited" =>
    /\ AheadOfSignal = <<>>
    /\ said \o TextsOf(queue) = enqueued

\* C17 as amended: every text enqueued is either synthesized, in enqueue
\* order, or still on the queue; the worker exits only after stop() was
\* called, at its first check of _running after stop() cleared it or when it
\* takes the shutdown signal, whichever comes first, so texts still queued at
\* that check are left unsynthesized.
C17_PrefixDrainedThenExit ==
  [][/\ said' \o TextsOf(queue') = enqueued'
     /\ (thread = "check" /\ thread' # "check") =>
          thread' = IF running THEN "get" ELSE "exited"
     /\ (thread # "exited" /\ thread' = "exited") =>
          \/ thread = "check" /\ ~running
          \/ /\ thread = "get"
             /\ queue # <<>>
             /\ Head(queue) = ShutdownSignal
             /\ said' = said
    ]_vars

\* the worker has exited after one of two queued texts, the other is left
C17_Witness ==
  /\ thread = "exited"
  /\ Len(said) = 1
  /\ Len(enqueued) = 2
  /\ TextsOf(queue) # <<>>

\* one sequence is the beginning of the other
IsPrefix(a, b) == Len(a) <= Len(b) /\ a = SubSeq(b, 1, Len(a))

\* C18: the texts handed to the speech engine are taken from the queue
\* oldest first, each once: they are, in order, texts that were enqueued,
\* none more often than it was enqueued; and once the worker has exited no
\* text is synthesized any more.
C18_FifoAtMostOnce ==
  [][/\ IsPrefix(said', enqueued')
     /\ said' # said =>
          /\ queue # <<>>
          /\ said' = Append(said, Head(queue))
          /\ queue' = Tail(queue)
     /\ thread = "exited" => (said' = said /\ thread' = "exited")
    ]_vars

\* two different texts were enqueued and synthesized in that order, and the
\* worker has exited
C18_Witness ==
  /\ thread = "exited"
  /\ Len(said) = 2
  /\ said[1] # said[2]
  /\ said = enqueued

\* C19: when join gives up after its timeout with the worker still alive,
\* stop() reports the failure to its caller instead of returning None.
C19_JoinTimeoutSurfaced ==
  (op = "stop" /\ log = <<Ev("join", "timeout")>>) => ret # None

C21_HapticFailureContained ==
  [][/\ HapticPlayed' =>
          /\ ret' = None
          /\ UNCHANGED <<handlerVars, sessionVars>>
     /\ (Processed' /\ Toggled' /\ HapticCalls(log') # {}) =>
          /\ recording_state' # recording_state
          /\ is_recording' = (recording_state' = "RECORDING")
          /\ log'[Len(log')] =
               Ev(IF recording_state' = "RECORDING"
                  THEN "on_recording_start" ELSE "on_recording_stop", "")
    ]_vars

\* the write of the start pattern has raised and been swallowed while the
\* recording it announced goes on
C21_Witness ==
  /\ op = "play_enhanced_haptic"
  /\ log = <<Ev("play_enhanced_haptic", "start"), Ev("speaker_char", "found"),
             Ev("write_gatt_char", "2"), Ev("except", "Exception")>>
  /\ ret = None
  /\ recording_state = "RECORDING"
  /\ is_recording

\* C22: start_notify on the button characteristic is issued only after
\* start_notify on the audio characteristic has returned, with audio still
\* subscribed; the button subscription is made only from there; and a button
\* notification is handled only with the button characteristic subscribed.
C22_AudioBeforeButton ==
  [][/\ listen_pc' = "start_button" =>
          /\ listen_pc \in {"start_audio", "start_button"}
          /\ audio_subscribed'
          /\ ~button_subscribed'
     /\ (button_subscribed' /\ ~button_subscribed) =>
          /\ listen_pc = "start_button"
          /\ audio_subscribed
     /\ Processed' => button_subscribed
     /\ button_subscribed' => listen_pc' = "sleep"
    ]_vars

\* a LongPressStart has been handled with both characteristics subscribed
C22_Witness ==
  /\ Processed
  /\ ret = Some(LONG_PRESS_START)
  /\ button_subscribed
  /\ audio_subscribed
  /\ listen_pc = "sleep"

\* C23: while the fallback is disabled (set_fallback_enabled(False) was the
\* last setting), no LongPressRelease notification changes recording_state
\* or the toggle counter, reaches the session's recording flag or dispatches
\* a haptic, whether or not a START was ever seen and however long ago.
C23_StrictStartOnly ==
  [][(Processed' /\ ret' = Some(LONG_PRESS_RELEASE) /\ ~fallback_enabled) =>
       /\ recording_state' = recording_state
       /\ toggle_count' = toggle_count
       /\ is_recording' = is_recording
       /\ HapticCalls(log') = {}
       /\ Calls(log', "recording_state") = {}
    ]_vars

\* with the fallback disabled and the haptics installed, a RELEASE that no
\* START preceded has been observed and nothing else happened
C23_Witness ==
  /\ Processed
  /\ ret = Some(LONG_PRESS_RELEASE)
  /\ ~fallback_enabled
  /\ since_last_start = None
  /\ enhanced_haptic_callback
  /\ recording_state = "IDLE"
  /\ log = <<Ev("on_button_event", "LONG_PRESS_RELEASE")>>

\* a pause task created while a pause window was open has just started to run
BegunInWindow ==
  /\ op' = "pause_begin"
  /\ \E t \in Live : t.in_window /\ CopiesIn(t, tasks') < CopiesIn(t, tasks)

\* C24: the pause task of a LongPressStart that arrives while a pause window
\* is open issues no unsubscribe or resubscribe of its own and leaves the
\* flag and the sleeping cycle as they are, and the notification itself is
\* handled by the ButtonHandler as always: it toggles unless it is a rapid
\* duplicate.
C24_StartDuringPauseIgnoredByArbiter ==
  [][/\ BegunInWindow =>
          /\ CyclesInFlight' = CyclesInFlight
          /\ audio_subscribed' = audio_subscribed
          /\ audio_paused' = audio_paused
     /\ (Processed' /\ ret' = Some(LONG_PRESS_START) /\ PauseActive) =>
          /\ (recording_state' # recording_state) <=> ~Recent(LONG_PRESS_START)
          /\ CyclesInFlight' = CyclesInFlight
          /\ \A t \in Live : t.pc = "sleep" => t \in BagToSet(tasks')
    ]_vars

\* C25: a recognized notification is skipped, with no observer call, no
\* toggle and nothing of the handler changed, exactly when it has the state
\* of the most recently accepted notification and comes less than 100 ms
\* after it; any other recognized notification is accepted: the observer is
\* called, it becomes the most recently accepted one, and a LongPressStart
\* toggles.
C25_OnlyTrueDuplicatesDropped ==
  [][(Processed' /\ ret' # None) =>
       /\ (log' = <<>>) <=> Recent(Val(ret'))
       /\ Recent(Val(ret')) => UNCHANGED <<handlerVars, sessionVars>>
       /\ ~Recent(Val(ret')) =>
            (/\ Calls(log', "on_button_event") = {1}
             /\ last_button_state' = ret'
             /\ since_last_button' = Some(0)
             /\ (ret' = Some(LONG_PRESS_START) =>
                   recording_state' # recording_state))
    ]_vars

\* a second LongPressStart, not a duplicate, has stopped the recording and
\* is now the most recently accepted notification
C25_Witness ==
  /\ Processed
  /\ ret = Some(LONG_PRESS_START)
  /\ last_button_state = Some(LONG_PRESS_START)
  /\ since_last_button = Some(0)
  /\ recording_state = "IDLE"
  /\ Calls(log, "on_button_event") = {1}
  /\ Calls(log, "on_recording_stop") # {}

\* C26: while the listener is running and no pause cycle is in flight, the
\* audio characteristic is subscribed, whatever the transport calls of the
\* pause cycles have returned.
C26_AudioSubscribedOutsidePause ==
  (listen_pc \in {"start_button", "sleep"} /\ CyclesInFlight = 0)
    => audio_subscribed

\* C27: the first recognized notification after reset() is handled as a
\* freshly constructed handler handles its first one: it is accepted, the
\* observer is called with it, and it becomes the most recently accepted
\* notification.
C27_ResetBehavesAsFresh ==
  [][(op = "reset" /\ Processed' /\ ret' # None) =>
       /\ Calls(log', "on_button_event") = {1}
       /\ last_button_state' = ret'
       /\ since_last_button' = Some(0)
    ]_vars

\* C28: after any sequence of process_button_data, set_fallback_enabled and
\* reset calls, session.is_recording is true exactly when the handler's
\* recording_state is Recording.
C28_SessionAgreesWithHandler ==
  is_recording <=> (recording_state = "RECORDING")

\* C29 as claimed: once the engine has raised on a text, every text enqueued
\* after that and before the shutdown signal is synthesized: when the worker
\* has exited, no such text is left on the queue ahead of the signal.
C29_TextsAfterErrorAllSynthesized ==
  (thread = "exited" /\ tts_errors # <<>> /\ AheadOfSignal # <<>>) =>
    Len(said) + Len(AheadOfSignal) <= tts_errors[1]

\* C29 as amended: an engine error is caught inside the loop: the worker
\* goes back to its check of _running with the queue and the texts handed to
\* the engine as they were; the worker never exits while _running is true,
\* that is before stop() is called; and each text it takes is the oldest on
\* the queue. Texts still queued when stop() clears _running may be left
\* unsynthesized, with or without an earlier error.
C29_ErrorKeepsWorkerRunning ==
  [][/\ tts_errors' # tts_errors =>
          /\ thread = "say"
          /\ thread' = "check"
          /\ tts_errors' = Append(tts_errors, Len(enqueued))
          /\ UNCHANGED <<queue, said, running, enqueued>>
     /\ running' => thread' # "exited"
     /\ (thread = "get" /\ thread' = "say") =>
          /\ said' = Append(said, Head(queue))
          /\ queue' = Tail(queue)
    ]_vars

\* the engine raised on the first text; a second text, enqueued after that,
\* has been taken and synthesized without an error
C29_Witness ==
  /\ tts_errors = <<1>>
  /\ Len(said) = 2
  /\ said = enqueued
  /\ thread = "check"
  /\ running

\* the integers a parse_button_state call was given
Given == [i \in 1..Len(log) |->
            CHOOSE b \in ByteVals : ToString(b) = log[i].arg]

\* C30: parse_button_state returns for a list of byte values what a handler
\* that has accepted nothing yet returns from process_button_data for the
\* same bytes: None for fewer than 4 bytes, else the ButtonState whose value
\* is the little-endian integer of the first 4 bytes, or None when there is
\* no such state.
C30_UtilityAgreesWithHandler ==
  op = "parse_button_state" =>
    /\ last_button_state = None => ret = Outcome(Given).ret
    /\ ret = IF dataLen < 4 THEN None
             ELSE IF LE32(Given) \in ButtonState THEN Some(LE32(Given))
             ELSE None

\* the utility has decoded a LongPressRelease followed by a fifth byte, as a
\* handler that has accepted nothing yet would
C30_Witness ==
  /\ op = "parse_button_state"
  /\ dataLen = 5
  /\ Given[5] # 0
  /\ ret = Some(LONG_PRESS_RELEASE)
  /\ last_button_state = None
  /\ Outcome(Given).ret = ret

====
